---- MODULE Spec2Model ----
(***************************************************************************)
(* Model of the live-room verification-code refresher (the second,        *)
(* list -> match -> refresh -> notify version of cf_worker.js).           *)
(*                                                                         *)
(* Text is a sequence of one-character strings, so that split, trim,      *)
(* includes and join are computed as JavaScript computes them.  A fixed   *)
(* phrase of the source (its Chinese literals, an environment key) is     *)
(* written as one token holding an ASCII rendering of the phrase.         *)
(* JSON values are tagged records; in a JSON value null and a missing      *)
(* field are one value, JNull, since every operator the program applies    *)
(* to one (?., ??, ||, Boolean, Array.isArray, !== 0) treats the two       *)
(* alike.  What a promise rejects with is an Error object (its name and    *)
(* its message): run() is called with the global fetch only, which rejects *)
(* with a TypeError.                                                       *)
(***************************************************************************)
EXTENDS Integers, Sequences, FiniteSets, TLC

\* ------------------------------------------------------------------ bounds
MaxServers == 2
MaxNames == 3
MaxRooms == 2

\* -------------------------------------------------------------------- text
Digit(d) == <<"0", "1", "2", "3", "4", "5", "6", "7", "8", "9">>[d + 1]

RECURSIVE NatToStr(_)
NatToStr(n) == IF n < 10 THEN <<Digit(n)>> ELSE NatToStr(n \div 10) \o <<Digit(n % 10)>>

IntToStr(n) == IF n < 0 THEN <<"-">> \o NatToStr(0 - n) ELSE NatToStr(n)

\* The characters String.prototype.trim strips: the white space and the line
\* terminators of ECMAScript.  Blank, tab, line feed, carriage return and form
\* feed are written with their escapes; the vertical tab (U+000B), the
\* no-break space (U+00A0), the Ogham space mark (U+1680) and the byte order
\* mark (U+FEFF) stand in their strings as the characters themselves.  The
\* remaining ones (U+2000 to U+200A, U+2028, U+2029, U+202F, U+205F, U+3000)
\* cannot stand in a string of a module, so no text of the model holds them.
WhiteSpace == {" ", "\t", "\n", "\r", "\f", "", " ", " ", "﻿"}

\* String.prototype.trim
RECURSIVE TrimStart(_)
TrimStart(s) == IF s # <<>> /\ Head(s) \in WhiteSpace THEN TrimStart(Tail(s)) ELSE s

RECURSIVE TrimEnd(_)
TrimEnd(s) == IF s # <<>> /\ s[Len(s)] \in WhiteSpace THEN TrimEnd(SubSeq(s, 1, Len(s) - 1)) ELSE s

Trim(s) == TrimEnd(TrimStart(s))

\* String.prototype.split(sep) for a one-character separator: "" gives [""]
RECURSIVE Split(_, _)
Split(s, sep) ==
    IF \E i \in 1..Len(s) : s[i] = sep
    THEN LET i == CHOOSE k \in 1..Len(s) : s[k] = sep /\ \A m \in 1..(k - 1) : s[m] # sep
         IN  <<SubSeq(s, 1, i - 1)>> \o Split(SubSeq(s, i + 1, Len(s)), sep)
    ELSE <<s>>

\* String.prototype.includes
Includes(s, target) ==
    \E i \in 1..(Len(s) - Len(target) + 1) : SubSeq(s, i, i + Len(target) - 1) = target

\* Array.prototype.join over an array of strings
RECURSIVE Join(_, _)
Join(parts, sep) ==
    IF parts = <<>> THEN <<>>
    ELSE IF Len(parts) = 1 THEN parts[1]
    ELSE parts[1] \o sep \o Join(Tail(parts), sep)

NonEmpty(s) == s # <<>>

\* Array.prototype.map(trim), a map over a sequence of strings
TrimAll(parts) == [i \in 1..Len(parts) |-> Trim(parts[i])]

\* ---------------------------------------------------------------- JSON values
JNull == [t |-> "null"]
JBool(b) == [t |-> "bool", b |-> b]
JNum(n) == [t |-> "num", n |-> n]
JStr(s) == [t |-> "str", s |-> s]
JArr(a) == [t |-> "arr", a |-> a]
JObj(o) == [t |-> "obj", o |-> o]

\* the value undefined where it is told from null: as a value thrown
JUndefined == [t |-> "undefined"]

\* an Error object: new Error(message), a TypeError, a SyntaxError
Err(name, message) == [t |-> "error", name |-> name, message |-> message]

\* property access j?.k
Get(j, k) ==
    IF j.t = "obj" /\ k \in DOMAIN j.o THEN j.o[k]
    ELSE IF j.t = "error" /\ k \in {"name", "message"} THEN JStr(j[k])
    ELSE JNull

\* Boolean(j)
Truthy(j) ==
    CASE j.t \in {"null", "undefined"} -> FALSE
      [] j.t = "bool" -> j.b
      [] j.t = "num" -> j.n # 0
      [] j.t = "str" -> j.s # <<>>
      [] OTHER -> TRUE

\* a ?? b
Coalesce(a, b) == IF a.t \in {"null", "undefined"} THEN b ELSE a

\* a || b
OrElse(a, b) == IF Truthy(a) THEN a ELSE b

\* String(j) throws: an object with a toString property of its own, which a
\* parsed JSON value cannot make callable (the inherited valueOf, or an own one
\* that is no function either, gives no primitive); and an array, joined
\* element by element, that holds such a value
RECURSIVE StrThrows(_)
StrThrows(j) ==
    CASE j.t = "obj" -> "toString" \in DOMAIN j.o
      [] j.t = "arr" -> \E i \in 1..Len(j.a) : StrThrows(j.a[i])
      [] OTHER -> FALSE

\* the TypeError of that conversion
PrimitiveError == Err(<<"TypeError">>, <<"Cannot convert object to primitive value">>)

\* the text String(j) gives when it gives one, character by character; an
\* array's elements are joined with ",", null elements as ""; an Error prints
\* as its name, followed by ": " and its message when it has one
\* (Error.prototype.toString)
RECURSIVE Text(_)
Text(j) ==
    CASE j.t = "null" -> <<"n", "u", "l", "l">>
      [] j.t = "undefined" -> <<"u", "n", "d", "e", "f", "i", "n", "e", "d">>
      [] j.t = "bool" -> IF j.b THEN <<"t", "r", "u", "e">> ELSE <<"f", "a", "l", "s", "e">>
      [] j.t = "num" -> IntToStr(j.n)
      [] j.t = "str" -> j.s
      [] j.t = "arr" ->
            Join([i \in 1..Len(j.a) |->
                     IF j.a[i].t \in {"null", "undefined"} THEN <<>> ELSE Text(j.a[i])], <<",">>)
      [] j.t = "error" ->
            IF j.message = <<>> THEN j.name
            ELSE IF j.name = <<>> THEN j.message
            ELSE j.name \o <<":", " ">> \o j.message
      [] OTHER -> <<"[", "o", "b", "j", "e", "c", "t", " ", "O", "b", "j", "e", "c", "t", "]">>

\* String(j), and every implicit conversion to a string (a template literal,
\* new Error(j), Array.prototype.join): it throws, or it gives a text
ToStr(j) ==
    IF StrThrows(j) THEN [threw |-> TRUE, error |-> PrimitiveError, text |-> <<>>]
    ELSE [threw |-> FALSE, error |-> JNull, text |-> Text(j)]

\* ------------------------------------------------------------- configuration
KeyAlias == "SERVER_ALIAS_LIST"
KeyUrl == "SERVER_URL_LIST"
KeyNames == "LIVE_NAME_LIST"
KeyToken == "SERVER_TOKEN"
KeyWebhook == "WECHAT_WEBHOOK_KEY"

\* An environment is a function from some keys to strings; a key outside its
\* domain is undefined, and the empty string is falsy.
Has(map, key) == key \in DOMAIN map /\ map[key] # <<>>

\* getEnv: overrides, then env, then process.env; <<>> stands for undefined,
\* which every caller turns into "" (value || "")
getEnv(env, overrides, procEnv, key) ==
    IF Has(overrides, key) THEN overrides[key]
    ELSE IF Has(env, key) THEN env[key]
    ELSE IF Has(procEnv, key) THEN procEnv[key]
    ELSE <<>>

parseList(value) == SelectSeq(TrimAll(Split(value, ",")), NonEmpty)

ErrAliasMissing == <<"SERVER_ALIAS_LIST", " ", "[not configured]">>
ErrUrlMissing == <<"SERVER_URL_LIST", " ", "[not configured]">>
ErrCountMismatch == <<"SERVER_ALIAS_LIST", " ", "[and]", " ", "SERVER_URL_LIST", " ", "[counts differ]">>
ErrNamesMissing == <<"LIVE_NAME_LIST", " ", "[not configured]">>
ErrTokenMissing == <<"SERVER_TOKEN", " ", "[not configured]">>
ErrWebhookMissing == <<"WECHAT_WEBHOOK_KEY", " ", "[not configured]">>

ConfigThrow(msg) ==
    [threw |-> TRUE, error |-> msg, servers |-> <<>>, liveNames |-> <<>>,
     token |-> <<>>, webhookKey |-> <<>>]

\* loadConfig without its last check, the one of the webhook key
loadConfig_NoWebhookCheck(env, overrides, procEnv) ==
    LET aliasList == parseList(getEnv(env, overrides, procEnv, KeyAlias))
        urlList == parseList(getEnv(env, overrides, procEnv, KeyUrl))
        liveNames == parseList(getEnv(env, overrides, procEnv, KeyNames))
        token == Trim(getEnv(env, overrides, procEnv, KeyToken))
        webhookKey == Trim(getEnv(env, overrides, procEnv, KeyWebhook))
    IN  IF aliasList = <<>> THEN ConfigThrow(ErrAliasMissing)
        ELSE IF urlList = <<>> THEN ConfigThrow(ErrUrlMissing)
        ELSE IF Len(aliasList) # Len(urlList) THEN ConfigThrow(ErrCountMismatch)
        ELSE IF liveNames = <<>> THEN ConfigThrow(ErrNamesMissing)
        ELSE IF token = <<>> THEN ConfigThrow(ErrTokenMissing)
        ELSE [threw |-> FALSE, error |-> <<>>,
              servers |-> [i \in 1..Len(aliasList) |-> [alias |-> aliasList[i], url |-> urlList[i]]],
              liveNames |-> liveNames, token |-> token, webhookKey |-> webhookKey]

loadConfig(env, overrides, procEnv) ==
    LET aliasList == parseList(getEnv(env, overrides, procEnv, KeyAlias))
        urlList == parseList(getEnv(env, overrides, procEnv, KeyUrl))
        liveNames == parseList(getEnv(env, overrides, procEnv, KeyNames))
        token == Trim(getEnv(env, overrides, procEnv, KeyToken))
        webhookKey == Trim(getEnv(env, overrides, procEnv, KeyWebhook))
    IN  IF aliasList = <<>> THEN ConfigThrow(ErrAliasMissing)
        ELSE IF urlList = <<>> THEN ConfigThrow(ErrUrlMissing)
        ELSE IF Len(aliasList) # Len(urlList) THEN ConfigThrow(ErrCountMismatch)
        ELSE IF liveNames = <<>> THEN ConfigThrow(ErrNamesMissing)
        ELSE IF token = <<>> THEN ConfigThrow(ErrTokenMissing)
        ELSE IF webhookKey = <<>> THEN ConfigThrow(ErrWebhookMissing)
        ELSE [threw |-> FALSE, error |-> <<>>,
              servers |-> [i \in 1..Len(aliasList) |-> [alias |-> aliasList[i], url |-> urlList[i]]],
              liveNames |-> liveNames, token |-> token, webhookKey |-> webhookKey]

\* ------------------------------------------------------------ HTTP exchange
\* What one call of the fetcher gives: a rejection (threw, with the Error it
\* rejected with), or a Response with its status line and its body.  The body
\* is read as text (response.text()) or as JSON (response.json()), and either
\* read may reject: textFails, and jsonFails with the error json() rejects
\* with (jsonError).  Reading and parsing the body is the engine's work, so
\* a Response carries what the read gives: the parsed value (json), or the
\* error, whose name and message are the engine's.
FetchThrew(err) ==
    [threw |-> TRUE, error |-> err, ok |-> FALSE, status |-> <<>>, statusText |-> <<>>,
     textFails |-> FALSE, text |-> <<>>, jsonFails |-> FALSE, jsonError |-> JNull, json |-> JNull]

\* an answer that is not 2xx: the program reads its body as text only
\* (safeError), never as JSON, so its JSON reading is left blank
HttpError(status, statusText, textFails, text) ==
    [threw |-> FALSE, error |-> JNull, ok |-> FALSE, status |-> status, statusText |-> statusText,
     textFails |-> textFails, text |-> text, jsonFails |-> TRUE, jsonError |-> JNull, json |-> JNull]

HttpOk(json) ==
    [threw |-> FALSE, error |-> JNull, ok |-> TRUE, status |-> <<"200">>, statusText |-> <<"OK">>,
     textFails |-> FALSE, text |-> <<>>, jsonFails |-> FALSE, jsonError |-> JNull, json |-> json]

\* a 2xx answer whose response.json() rejects with err
HttpOkNoJson(err) ==
    [threw |-> FALSE, error |-> JNull, ok |-> TRUE, status |-> <<"200">>, statusText |-> <<"OK">>,
     textFails |-> FALSE, text |-> <<>>, jsonFails |-> TRUE, jsonError |-> err, json |-> JNull]

\* the body "{": the SyntaxError of the parser
HttpOkMalformed ==
    HttpOkNoJson(Err(<<"SyntaxError">>, <<"Expected property name or '}' in JSON at position 1">>))

\* a body whose stream breaks off while it is read: the TypeError of the read
HttpOkCutOff == HttpOkNoJson(Err(<<"TypeError">>, <<"terminated">>))

\* `${err.message || err}` in a catch clause throws an error of its own: when
\* the value caught is null or undefined (err.message cannot be read), and
\* when what it prints cannot be converted to a string.  No error the global
\* fetch or the clients throw is of that kind.
CatchThrows(err) ==
    err.t \in {"null", "undefined"} \/ StrThrows(OrElse(Get(err, "message"), err))

\* the TypeError of reading the message of null, or of undefined
NullMessageError(err) ==
    Err(<<"TypeError">>,
        <<"Cannot read properties of ">> \o Text(err) \o <<" (reading 'message')">>)

\* the error the catch clause throws then
CatchError(err) ==
    IF err.t \in {"null", "undefined"} THEN NullMessageError(err) ELSE PrimitiveError

\* `${err.message || err}` when it gives a text: the message when there is
\* one, else the value as a string (an Error without message prints as its
\* name, a thrown string as itself)
ErrText(err) == ToStr(OrElse(Get(err, "message"), err)).text

safeJson(res) == IF res.jsonFails THEN JNull ELSE res.json

safeError(res) ==
    IF res.textFails THEN res.status \o <<" ">> \o res.statusText
    ELSE res.status \o <<" ">> \o res.statusText \o <<":", " ">> \o res.text

buildHeaders(token) == [ContentType |-> <<"application/json">>, Token |-> token]

\* The requests the program sends.  kind names the endpoint.
ListRequest(server, token) ==
    [kind |-> "list", url |-> <<"https://">> \o server.url \o <<"/api/live/liveList">>,
     headers |-> buildHeaders(token), param |-> <<>>]

\* The two refresh requests are built from room ids: String(liveId) and
\* liveIds.join(",") may throw, and then there is no request (threw, error).
SingleRequest(server, token, liveId) ==
    [threw |-> ToStr(liveId).threw, error |-> ToStr(liveId).error,
     kind |-> "single", url |-> <<"https://">> \o server.url \o <<"/api/live/refreshVerifyCode">>,
     headers |-> buildHeaders(token), param |-> ToStr(liveId).text]

BatchRequest(server, token, liveIds) ==
    [threw |-> ToStr(JArr(liveIds)).threw, error |-> ToStr(JArr(liveIds)).error,
     kind |-> "batch", url |-> <<"https://">> \o server.url \o <<"/api/live/batchRefVerifyCode">>,
     headers |-> buildHeaders(token), param |-> ToStr(JArr(liveIds)).text]

\* ---------------------------------------------------------- upstream clients
\* fetchLiveList throws err
ListThrow(err) == [threw |-> TRUE, error |-> err, list |-> <<>>]

\* new Error(message) for a message that is a string
NewError(message) == Err(<<"Error">>, message)

\* new Error(j) for any value: the message is String(j), whose TypeError is
\* what the expression throws when the conversion fails
NewErrorOf(j) == IF ToStr(j).threw THEN ToStr(j).error ELSE NewError(ToStr(j).text)

MsgListFailed == <<"[fetching the live list failed]">>
MsgListShape == <<"[live list data malformed]">>

\* fetchLiveList without its check of meta.success
fetchLiveList_IgnoresMeta(res) ==
    IF res.threw THEN ListThrow(res.error)
    ELSE IF ~res.ok THEN ListThrow(NewError(safeError(res)))
    ELSE IF res.jsonFails THEN ListThrow(res.jsonError)
    ELSE IF Get(res.json, "data").t # "arr" THEN ListThrow(NewError(MsgListShape))
    ELSE [threw |-> FALSE, error |-> JNull, list |-> Get(res.json, "data").a]

\* fetchLiveList, given what the fetcher answered
fetchLiveList(res) ==
    IF res.threw THEN ListThrow(res.error)
    ELSE IF ~res.ok THEN ListThrow(NewError(safeError(res)))
    ELSE IF res.jsonFails THEN ListThrow(res.jsonError)
    ELSE LET data == res.json
             meta == Get(data, "meta")
         IN  IF ~Truthy(Get(meta, "success"))
             THEN ListThrow(NewErrorOf(OrElse(Get(meta, "message"), JStr(MsgListFailed))))
             ELSE IF Get(data, "data").t # "arr" THEN ListThrow(NewError(MsgListShape))
             ELSE [threw |-> FALSE, error |-> JNull, list |-> Get(data, "data").a]

MsgRefreshFailed == <<"[refresh failed]">>

\* a refresh client throws err: what the fetcher rejected with, the Error of a
\* status that is not 2xx, or the TypeError of String(code)
RefreshThrow(err) ==
    [threw |-> TRUE, error |-> err, code |-> <<>>, success |-> FALSE, message |-> <<>>]

\* refreshRoomCode, given what the fetcher answered
refreshRoomCode(res) ==
    IF res.threw THEN RefreshThrow(res.error)
    ELSE IF ~res.ok THEN RefreshThrow(NewError(safeError(res)))
    ELSE LET data == safeJson(res)
             success == Truthy(Get(Get(data, "meta"), "success"))
             code == Coalesce(Get(Get(data, "data"), "code"),
                              Coalesce(Get(Get(data, "meta"), "message"), JStr(MsgRefreshFailed)))
         IN  IF ToStr(code).threw THEN RefreshThrow(ToStr(code).error)
             ELSE [threw |-> FALSE, error |-> JNull, code |-> ToStr(code).text, success |-> success,
                   message |-> IF success THEN <<>> ELSE ToStr(code).text]

\* the batch client reading data.code as the single-room client does
refreshMultiRoomCode_ReadsDataCode(res) ==
    IF res.threw THEN RefreshThrow(res.error)
    ELSE IF ~res.ok THEN RefreshThrow(NewError(safeError(res)))
    ELSE LET data == safeJson(res)
             success == Truthy(Get(Get(data, "meta"), "success"))
             code == Coalesce(Get(Get(data, "data"), "code"),
                              Coalesce(Get(Get(data, "meta"), "message"), JStr(MsgRefreshFailed)))
         IN  IF ToStr(code).threw THEN RefreshThrow(ToStr(code).error)
             ELSE [threw |-> FALSE, error |-> JNull, code |-> ToStr(code).text, success |-> success,
                   message |-> IF success THEN <<>> ELSE ToStr(code).text]

\* refreshMultiRoomCode, given what the fetcher answered
refreshMultiRoomCode(res) ==
    IF res.threw THEN RefreshThrow(res.error)
    ELSE IF ~res.ok THEN RefreshThrow(NewError(safeError(res)))
    ELSE LET data == safeJson(res)
             success == Truthy(Get(Get(data, "meta"), "success"))
             code == Coalesce(Get(data, "data"),
                              Coalesce(Get(Get(data, "meta"), "message"), JStr(MsgRefreshFailed)))
         IN  IF ToStr(code).threw THEN RefreshThrow(ToStr(code).error)
             ELSE [threw |-> FALSE, error |-> JNull, code |-> ToStr(code).text, success |-> success,
                   message |-> IF success THEN <<>> ELSE ToStr(code).text]

\* ------------------------------------------------------------- name matching
\* liveNames.filter(Boolean).map(item => item.split("|").map(trim).filter(Boolean))
parseLiveNameGroups(liveNames) ==
    LET kept == SelectSeq(liveNames, NonEmpty)
    IN  [i \in 1..Len(kept) |-> SelectSeq(TrimAll(Split(kept[i], "|")), NonEmpty)]

\* String(room?.name || "")
RoomName(room) == ToStr(OrElse(Get(room, "name"), JStr(<<>>)))

\* the callback of liveList.find for a room whose name converts:
\* name && name.includes(target)
RoomMatches(room, target) == RoomName(room).text # <<>> /\ Includes(RoomName(room).text, target)

\* liveList.find(...) throws: it comes to a room whose name does not convert
\* before it comes to a room that matches
FindThrows(liveList, target) ==
    \E k \in 1..Len(liveList) :
        /\ RoomName(liveList[k]).threw
        /\ \A m \in 1..(k - 1) : ~RoomMatches(liveList[m], target)

\* liveList.find(...): the rooms found for the patterns of one group, in
\* pattern order; a pattern no room matches adds nothing
RECURSIVE MatchGroup(_, _)
MatchGroup(liveList, nameGroup) ==
    IF nameGroup = <<>> THEN <<>>
    ELSE LET target == Head(nameGroup)
             hits == {k \in 1..Len(liveList) : RoomMatches(liveList[k], target)}
             first == CHOOSE k \in hits : \A m \in hits : k <= m
         IN  (IF hits = {} THEN <<>> ELSE <<liveList[first]>>)
             \o MatchGroup(liveList, Tail(nameGroup))

RECURSIVE FilterGroups(_, _)
FilterGroups(liveList, groups) ==
    IF groups = <<>> THEN <<>>
    ELSE LET rooms == MatchGroup(liveList, Head(groups))
         IN  (IF Len(rooms) > 0 THEN <<[names |-> Head(groups), rooms |-> rooms]>> ELSE <<>>)
             \o FilterGroups(liveList, Tail(groups))

\* filterLiveRooms: the matched groups, or the TypeError of the first find
\* that throws
filterLiveRooms(liveList, liveNames) ==
    LET nameGroups == parseLiveNameGroups(liveNames)
    IN  IF \E x \in 1..Len(nameGroups) :
              \E y \in 1..Len(nameGroups[x]) : FindThrows(liveList, nameGroups[x][y])
        THEN [threw |-> TRUE, error |-> PrimitiveError, groups |-> <<>>]
        ELSE [threw |-> FALSE, error |-> JNull, groups |-> FilterGroups(liveList, nameGroups)]

\* ------------------------------------------------------------- one server
MsgListFetchPrefix == <<"[fetching the live list failed:]">>
MsgNoMatch == <<"[no live room to refresh matched]">>
MsgMissingId == <<"[missing room id, cannot refresh]">>
MsgRefreshException == <<"[refresh exception:]">>

\* refreshServer's initial result
NewResult(server) == [alias |-> server.alias, rooms |-> <<>>, success |-> FALSE, error |-> JNull]

\* group.names.join("|")
DisplayName(group) == Join(group.names, <<"|">>)

\* group.rooms.map(r => r?.id).filter(Boolean)
LiveIds(group) == SelectSeq([k \in 1..Len(group.rooms) |-> Get(group.rooms[k], "id")], Truthy)

MissingIdOutcome(group) ==
    [name |-> DisplayName(group), code |-> MsgMissingId, success |-> FALSE, message |-> MsgMissingId]

\* the single-room endpoint whatever the number of ids
RefreshRequest_AlwaysSingle(server, token, group) ==
    SingleRequest(server, token, LiveIds(group)[1])

\* the request of one group's refresh: single for one id, batch otherwise
RefreshRequest(server, token, group) ==
    IF Len(LiveIds(group)) = 1
    THEN SingleRequest(server, token, LiveIds(group)[1])
    ELSE BatchRequest(server, token, LiveIds(group))

\* the client refreshServer calls for a group, given what the fetcher answered
RefreshCall(group, res) ==
    IF Len(LiveIds(group)) = 1 THEN refreshRoomCode(res) ELSE refreshMultiRoomCode(res)

\* the failed outcome the catch clause of the group loop pushes for a thrown
\* value whose message can be printed
ExceptionOutcome(group, err) ==
    LET message == MsgRefreshException \o ErrText(err)
    IN  [name |-> DisplayName(group), code |-> message, success |-> FALSE, message |-> message]

\* the outcome pushed for one group: the client's result under the group's
\* name, or the failed outcome of the catch clause when the client threw
RefreshOutcome(group, refresh) ==
    IF refresh.threw THEN ExceptionOutcome(group, refresh.error)
    ELSE [name |-> DisplayName(group), code |-> refresh.code, success |-> refresh.success,
          message |-> refresh.message]

\* the group loop from group k on, up to the first group whose request goes
\* to the fetcher: a group without any room id gets the missing-id outcome at
\* once, and so does a group whose request cannot be built (the client throws
\* before it calls the fetcher, and the catch clause pushes the failed outcome)
RECURSIVE SkipNoCall(_, _, _, _, _)
SkipNoCall(server, token, groups, k, rooms) ==
    IF k > Len(groups) THEN [k |-> k, rooms |-> rooms]
    ELSE IF LiveIds(groups[k]) = <<>>
         THEN SkipNoCall(server, token, groups, k + 1, Append(rooms, MissingIdOutcome(groups[k])))
    ELSE IF RefreshRequest(server, token, groups[k]).threw
         THEN SkipNoCall(server, token, groups, k + 1,
                         Append(rooms, ExceptionOutcome(groups[k],
                                                        RefreshRequest(server, token, groups[k]).error)))
    ELSE [k |-> k, rooms |-> rooms]

\* rooms.some in place of rooms.every
AllSucceeded_Some(rooms) == Len(rooms) > 0 /\ \E k \in 1..Len(rooms) : rooms[k].success

\* result.success = rooms.length > 0 && rooms.every(room => room.success)
AllSucceeded(rooms) == Len(rooms) > 0 /\ \A k \in 1..Len(rooms) : rooms[k].success

\* ------------------------------------------------------------- notification
MsgUnknown == <<"unknown">>
MsgFailed == <<"[code refresh failed]">>
MsgReason == <<"[reason:]">>
MsgSucceeded == <<"[refresh succeeded]">>
MsgPartial == <<"[refresh done (partly failed)]">>
MsgNoRooms == <<"[no live room to refresh matched.]">>
MsgRoomFailed == <<" ", "[refresh failed:]">>

RoomLine(room) ==
    IF room.success THEN room.name \o <<":">> \o room.code
    ELSE room.name \o MsgRoomFailed \o room.message

buildMessage(serverResult) ==
    LET alias == IF serverResult.alias # <<>> THEN serverResult.alias ELSE MsgUnknown
        header == IF serverResult.success THEN MsgSucceeded ELSE MsgPartial
        rooms == serverResult.rooms
    IN  IF Truthy(serverResult.error)
        THEN <<"<">> \o alias \o <<">">> \o MsgFailed \o <<"\n">> \o MsgReason \o serverResult.error.s
        ELSE Join(<< <<"<">> \o alias \o <<">">> \o header >>
                  \o (IF rooms = <<>> THEN <<MsgNoRooms>>
                      ELSE [k \in 1..Len(rooms) |-> RoomLine(rooms[k])]),
                  <<"\n">>)

NotifyRequest(webhookKey, serverResult) ==
    [kind |-> "notify",
     url |-> <<"https://qyapi.weixin.qq.com/cgi-bin/webhook/send?key=">> \o webhookKey,
     headers |-> [ContentType |-> <<"application/json">>],
     param |-> buildMessage(serverResult)]

MsgWecomError == <<"[WeCom returned an error]">>

\* sendNotification, given what the fetcher answered: does it throw, and what
sendNotification(res) ==
    IF res.threw THEN [threw |-> TRUE, error |-> res.error]
    ELSE IF ~res.ok THEN [threw |-> TRUE, error |-> NewError(safeError(res))]
    ELSE LET data == safeJson(res)
         IN  IF Get(data, "errcode") # JNum(0)
             THEN [threw |-> TRUE,
                   error |-> NewErrorOf(OrElse(Get(data, "errmsg"), JStr(MsgWecomError)))]
             ELSE [threw |-> FALSE, error |-> JNull]

\* ------------------------------------------------------------ handleRequest
MsgUnknownError == <<"unknown error">>

\* handleRequest's answer when run() resolved with results; error is the
\* error field of the JSON body, JNull when the body has none
Succeeded(results) ==
    [status |-> 200, ok |-> TRUE, results |-> results, error |-> JNull, text |-> <<>>]

\* handleRequest's answer when run() rejected with error:
\* error?.message || "unknown error"
Failed(error) ==
    [status |-> 500, ok |-> FALSE, results |-> <<>>,
     error |-> OrElse(Get(error, "message"), JStr(MsgUnknownError)), text |-> <<>>]

\* -------------------------------------------------------------------- state
VARIABLES
    entry,      \* who called run(): the fetch handler ("fetch"), the scheduled
                \* handler ("scheduled") or the direct execution ("node")
    path,       \* the pathname of the request handed to the fetch handler
    env,        \* the host environment handed to run()
    overrides,  \* the request-scoped overrides handed to run()
    procEnv,    \* process.env
    pc,         \* where run() stands: start; await_list, await_refresh,
                \* await_notify (the fetcher has the request); read_list,
                \* read_refresh, read_notify (the Response is there, its body
                \* is awaited); returned (resolved) or rejected
    config,     \* what loadConfig returned
    i,          \* refreshAll: index of the server being processed
    matched,    \* refreshServer: the matched groups, of every server so far
    g,          \* refreshServer: index of the group being refreshed
    result,     \* refreshServer: the result under construction
    results,    \* refreshAll: the results collected
    j,          \* run: index of the result being notified
    runError,   \* the error run() rejected with
    inflight,   \* the requests handed to the fetcher and not yet answered
    pending,    \* the Response whose body is being read, with its request
    calls,      \* history: every request handed to the fetcher, in order
    replies,    \* history: the complete answers (a rejection, or a Response
                \* with its body read), in order
    logged,     \* history: the notification failures run() logged
    response,   \* what the fetch handler answered
    exitCode,   \* the code the direct execution called process.exit with, 0
                \* while it has not
    fn,         \* function application: the function applied
    arg,        \* function application: its input
    out         \* function application: its output

inputVars == <<entry, path, env, overrides, procEnv>>

vars == <<entry, path, env, overrides, procEnv, pc, config, i, matched, g, result, results, j,
          runError, inflight, pending, calls, replies, logged, response, exitCode, fn, arg, out>>

runVars == <<entry, path, env, overrides, procEnv, pc, config, i, matched, g, result, results, j,
             runError, inflight, pending, calls, replies, logged, response, exitCode>>

fnVars == <<fn, arg, out>>

\* ------------------------------------------------------------------- inputs
Empty == [k \in {} |-> <<>>]

Alias(n) == <<"s">> \o NatToStr(n)
Host(n) == <<"h">> \o NatToStr(n) \o <<".", "io">>

\* "s1, s2" and "h1.io,h2.io"
AliasRaw(n) == Join([k \in 1..n |-> Alias(k)], <<",", " ">>)
UrlRaw(n) == Join([k \in 1..n |-> Host(k)], <<",">>)

NamesABC == <<"A", ",", "\t", "B", "|", "C", "\n">>
\* with white space of every kind: the byte order mark, the vertical tab and
\* the no-break space stand in their strings as themselves
NamesPool == {<<>>, <<"﻿", ",">>, <<"|">>, NamesABC}
TokenPool == {<<"">>, <<"t", "\n">>}
WebhookPool == {<<>>, <<"k", " ">>}

EnvOf(n, m, names, token, key) ==
    (KeyAlias :> AliasRaw(n)) @@ (KeyUrl :> UrlRaw(m)) @@ (KeyNames :> names)
    @@ (KeyToken :> token) @@ (KeyWebhook :> key)

OverridePool(m) == IF m = 1 THEN {Empty, KeyAlias :> <<"z">>} ELSE {Empty}
ProcEnvPool(m) == IF m = 0 THEN {Empty, KeyUrl :> <<"p", ".", "io">>} ELSE {Empty}

\* the environments of the runs started by the timer or from the command line
DirectEnvPool == {EnvOf(n, 1, NamesABC, <<"t">>, key) : n \in 0..1, key \in WebhookPool}

Room(id, name) == JObj("id" :> id @@ "name" :> JStr(name))
RoomNoId(name) == JObj("name" :> JStr(name))

RoomA == Room(JNum(1), <<"x", "A">>)
RoomB == Room(JNum(2), <<"B", "y">>)
RoomC == Room(JStr(<<"c", "3">>), <<"C">>)
RoomBC == Room(JNum(4), <<"B", "C">>)
RoomANoId == Room(JNum(0), <<"A">>)
RoomBNoId == RoomNoId(<<"B">>)

\* a value String() cannot convert, as JSON.parse gives it for {"toString": 1};
\* a room with such an id, and one with such a name
Unprintable == JObj("toString" :> JNum(1))
RoomOddId == Room(Unprintable, <<"A">>)
RoomOddName == JObj("id" :> JNum(5) @@ "name" :> Unprintable)

ListBody(rooms) == JObj("meta" :> JObj("success" :> JBool(TRUE)) @@ "data" :> JArr(rooms))

RoomLists ==
    {<<>>, <<RoomA, RoomB, RoomC>>, <<RoomANoId, RoomBNoId, RoomC>>, <<RoomOddId>>, <<RoomOddName>>}

\* what fetch rejects with: a TypeError, with or without a message
NetDown == Err(<<"TypeError">>, <<"[network down]">>)
Nameless == Err(<<"TypeError">>, <<>>)

ListFailures ==
    {FetchThrew(Nameless),
     HttpError(<<"500">>, <<"Internal Server Error">>, FALSE, <<"boom">>),
     HttpOkMalformed,
     HttpOk(JObj("meta" :> JObj("success" :> JBool(FALSE) @@ "message" :> JStr(<<"denied">>))
                 @@ "data" :> JArr(<<RoomA>>))),
     HttpOk(JObj("meta" :> JObj("success" :> JBool(TRUE)) @@ "data" :> JObj("rows" :> JArr(<<>>))))}

ListResponses == ListFailures \cup {HttpOk(ListBody(l)) : l \in RoomLists}

CodeSingle == JObj("meta" :> JObj("success" :> JBool(TRUE)) @@ "data" :> JObj("code" :> JNum(3200)))
Refused == JObj("meta" :> JObj("success" :> JBool(FALSE) @@ "message" :> JStr(<<"busy">>)))

\* what a refresh call gives in a run: a rejection, a code, a refusal (the
\* answers that are not 2xx are among those the clients are applied to on
\* their own, ResponsePool)
RefreshResponses == {FetchThrew(NetDown), HttpOk(CodeSingle), HttpOk(Refused)}

NotifyResponses ==
    {FetchThrew(NetDown),
     HttpError(<<"403">>, <<"Forbidden">>, FALSE, <<"no">>),
     HttpOk(JObj("errcode" :> JNum(93000) @@ "errmsg" :> JStr(<<"invalid key">>))),
     HttpOk(JObj("errcode" :> JNum(0) @@ "errmsg" :> JStr(<<"ok">>)))}

\* the Response as the fetcher hands it over, its body not read yet
StatusLine(res) == [ok |-> res.ok, status |-> res.status, statusText |-> res.statusText]

Rejections(pool) == {res \in pool : res.threw}
StatusLines(pool) == {StatusLine(res) : res \in {r \in pool : ~r.threw}}
Bodies(pool, line) == {res \in pool : ~res.threw /\ StatusLine(res) = line}

NoConfig == ConfigThrow(<<>>)
NoResult == [alias |-> <<>>, rooms |-> <<>>, success |-> FALSE, error |-> JNull]
NoError == JNull
NoPending == [line |-> [ok |-> FALSE, status |-> <<>>, statusText |-> <<>>], idx |-> 0, grp |-> 0]

\* the pathname export default's fetch serves, and another one
Refresh == "/refresh"
PathPool == {Refresh, "/health"}
NoPath == ""

NoResponse == [status |-> 0, ok |-> FALSE, results |-> <<>>, error |-> JNull, text |-> <<>>]

FnIdle == /\ fn = "none" /\ arg = <<>> /\ out = <<>>

Init ==
    /\ \/ /\ entry = "fetch"
          /\ path \in PathPool
          /\ \E n \in 0..MaxServers, m \in 0..MaxServers :
                /\ env \in {EnvOf(n, m, names, token, key) :
                               names \in NamesPool, token \in TokenPool, key \in WebhookPool}
                /\ overrides \in OverridePool(m)
                /\ procEnv \in ProcEnvPool(m)
       \/ /\ entry = "scheduled"
          /\ path = NoPath
          /\ env \in DirectEnvPool
          /\ overrides = Empty
          /\ procEnv = Empty
       \/ /\ entry = "node"
          /\ path = NoPath
          /\ procEnv \in DirectEnvPool
          /\ env = procEnv
          /\ overrides = Empty
    /\ pc = "start"
    /\ config = NoConfig
    /\ i = 0 /\ g = 0 /\ j = 0
    /\ matched = <<>>
    /\ result = NoResult
    /\ results = <<>>
    /\ runError = NoError
    /\ inflight = {}
    /\ pending = NoPending
    /\ calls = <<>>
    /\ replies = <<>>
    /\ logged = <<>>
    /\ response = NoResponse
    /\ exitCode = 0
    /\ FnIdle

\* ------------------------------------------------------------------ run()
\* An action is one stretch of run() between two awaits: of the fetcher's
\* promise, or of the body of the Response it resolved with (response.json()
\* in fetchLiveList and safeJson, response.text() in safeError).  A stretch
\* takes what was awaited, runs the code up to the next await and leaves what
\* is awaited next.

Entry(req, idx, grp) == [req |-> req, idx |-> idx, grp |-> grp]

\* the requests in done are settled, answers is what they gave in full (none
\* while a body is still to be read), and next is handed to the fetcher
Settle(done, answers, next) ==
    /\ inflight' = (inflight \ done) \cup {next[k] : k \in 1..Len(next)}
    /\ pending' = NoPending
    /\ calls' = calls \o next
    /\ replies' = replies \o answers

\* the fetcher resolved request e with a Response of this status line: the
\* code goes on to read its body (at is where it waits for it)
BodyAwaited(e, line, at) ==
    /\ pc' = at
    /\ pending' = [line |-> line, idx |-> e.idx, grp |-> e.grp]
    /\ inflight' = inflight \ {e}
    /\ UNCHANGED <<inputVars, config, i, matched, g, result, results, j, runError, calls, replies,
                   logged, response, exitCode, fnVars>>

\* run() rejects with err: handleRequest answers 500, the scheduled handler
\* leaves the rejected promise to ctx.waitUntil, the direct execution logs the
\* error and exits with code 1
Rejected(err) ==
    /\ pc' = "rejected"
    /\ runError' = err
    /\ response' = IF entry = "fetch" THEN Failed(err) ELSE response
    /\ exitCode' = IF entry = "node" THEN 1 ELSE exitCode

\* run() resolves with rs: handleRequest answers 200, the direct execution
\* logs the results, the scheduled handler does nothing more
Returned(rs) ==
    /\ pc' = "returned"
    /\ runError' = runError
    /\ response' = IF entry = "fetch" THEN Succeeded(rs) ELSE response
    /\ exitCode' = exitCode

\* refreshServer returned r: refreshAll pushes it and goes to the next server;
\* after the last one run() starts its notification loop
ServerDone(done, res, r) ==
    LET rs == Append(results, r)
    IN  /\ results' = rs
        /\ g' = 0
        /\ IF i < Len(config.servers)
           THEN /\ i' = i + 1
                /\ result' = NewResult(config.servers[i + 1])
                /\ pc' = "await_list"
                /\ j' = j
                /\ Settle(done, <<res>>,
                          <<Entry(ListRequest(config.servers[i + 1], config.token), i + 1, 0)>>)
           ELSE /\ i' = i
                /\ result' = NoResult
                /\ pc' = "await_notify"
                /\ j' = 1
                /\ Settle(done, <<res>>, <<Entry(NotifyRequest(config.webhookKey, rs[1]), 1, 0)>>)
        /\ UNCHANGED <<inputVars, config, runError, logged, response, exitCode, fnVars>>

\* refreshServer threw err: filterLiveRooms did, which no try encloses, or a
\* catch clause did (on a caught value whose message it cannot print, which
\* fetch and the clients never throw); the error leaves refreshAll too, and
\* run() rejects with it
ServerThrew(done, res, err) ==
    /\ Rejected(err)
    /\ Settle(done, <<res>>, <<>>)
    /\ UNCHANGED <<inputVars, config, i, g, result, results, j, logged, fnVars>>

\* the group loop handing the refresh requests of all the remaining groups to
\* the fetcher at once, without awaiting each before the next
GroupLoop_AllAtOnce(done, res, groups, k, r) ==
    LET s == SkipNoCall(config.servers[i], config.token, groups, k, r.rooms)
        rest == SelectSeq([x \in 1..Len(groups) |-> x],
                          LAMBDA x : /\ x >= s.k
                                     /\ LiveIds(groups[x]) # <<>>
                                     /\ ~RefreshRequest(config.servers[i], config.token, groups[x]).threw)
    IN  IF s.k <= Len(groups)
        THEN /\ pc' = "await_refresh"
             /\ g' = s.k
             /\ result' = [r EXCEPT !.rooms = s.rooms]
             /\ Settle(done, <<res>>,
                       [n \in 1..Len(rest) |->
                           Entry(RefreshRequest(config.servers[i], config.token, groups[rest[n]]),
                                 i, rest[n])])
             /\ UNCHANGED <<inputVars, config, i, results, j, runError, logged, response, exitCode,
                            fnVars>>
        ELSE ServerDone(done, res, [r EXCEPT !.rooms = s.rooms, !.success = AllSucceeded(s.rooms)])

\* refreshServer's group loop from group k on, r being the result so far
GroupLoop(done, res, groups, k, r) ==
    \E s \in {SkipNoCall(config.servers[i], config.token, groups, k, r.rooms)} :
        IF s.k <= Len(groups)
        THEN /\ pc' = "await_refresh"
             /\ g' = s.k
             /\ result' = [r EXCEPT !.rooms = s.rooms]
             /\ Settle(done, <<res>>,
                       <<Entry(RefreshRequest(config.servers[i], config.token, groups[s.k]), i, s.k)>>)
             /\ UNCHANGED <<inputVars, config, i, results, j, runError, logged, response, exitCode,
                            fnVars>>
        ELSE ServerDone(done, res, [r EXCEPT !.rooms = s.rooms, !.success = AllSucceeded(s.rooms)])

\* run() is called, by handleRequest for a request to /refresh, by the
\* scheduled handler or by the direct execution: loadConfig, then refreshAll
\* up to the first list request
RunStart ==
    /\ pc = "start"
    /\ entry = "fetch" => path = Refresh
    /\ \E cfg \in {loadConfig(env, overrides, procEnv)} :
           IF cfg.threw
           THEN /\ Rejected(NewError(cfg.error))
                /\ UNCHANGED <<config, i, result, inflight, pending, calls, replies>>
           ELSE /\ pc' = "await_list"
                /\ config' = cfg
                /\ i' = 1
                /\ result' = NewResult(cfg.servers[1])
                /\ Settle({}, <<>>, <<Entry(ListRequest(cfg.servers[1], cfg.token), 1, 0)>>)
                /\ UNCHANGED <<runError, response, exitCode>>
    /\ UNCHANGED <<inputVars, matched, g, results, j, logged, fnVars>>

\* refreshServer without its early return when no group matched: the group
\* loop runs over no group and the result is returned without error
AfterList_NoMatchNoError(done, res) ==
    \E fetched \in {fetchLiveList(res)} :
    \E filtered \in {filterLiveRooms(fetched.list, config.liveNames)} :
    \E groups \in {filtered.groups} :
        IF fetched.threw /\ CatchThrows(fetched.error)
        THEN /\ ServerThrew(done, res, CatchError(fetched.error))
             /\ UNCHANGED matched
        ELSE IF filtered.threw
        THEN /\ ServerThrew(done, res, filtered.error)
             /\ UNCHANGED matched
        ELSE /\ matched' = Append(matched, groups)
             /\ IF fetched.threw
                THEN ServerDone(done, res,
                                [result EXCEPT !.error = JStr(MsgListFetchPrefix \o ErrText(fetched.error))])
                ELSE GroupLoop(done, res, groups, 1, result)

\* refreshServer from the end of fetchLiveList (the fetcher rejected, or the
\* body of its Response was read) to its next await
AfterList(done, res) ==
    \E fetched \in {fetchLiveList(res)} :
    \E filtered \in {filterLiveRooms(fetched.list, config.liveNames)} :
    \E groups \in {filtered.groups} :
        IF fetched.threw /\ CatchThrows(fetched.error)
        THEN /\ ServerThrew(done, res, CatchError(fetched.error))
             /\ UNCHANGED matched
        ELSE IF filtered.threw
        THEN /\ ServerThrew(done, res, filtered.error)
             /\ UNCHANGED matched
        ELSE /\ matched' = Append(matched, groups)
             /\ IF fetched.threw
                THEN ServerDone(done, res,
                                [result EXCEPT !.error = JStr(MsgListFetchPrefix \o ErrText(fetched.error))])
                ELSE IF groups = <<>>
                THEN ServerDone(done, res, [result EXCEPT !.error = JStr(MsgNoMatch)])
                ELSE GroupLoop(done, res, groups, 1, result)

\* the fetcher settled the list request: a rejection ends fetchLiveList, a
\* Response has its body read next (text() if not ok, json() otherwise)
ListAnswered ==
    /\ pc = "await_list"
    /\ \E e \in inflight :
          \/ \E res \in Rejections(ListResponses) : AfterList({e}, res)
          \/ \E line \in StatusLines(ListResponses) :
                BodyAwaited(e, line, "read_list")

\* the body of the list Response was read, or its read threw
ListDone ==
    /\ pc = "read_list"
    /\ \E res \in Bodies(ListResponses, pending.line) : AfterList({}, res)

\* the group loop left at the first refresh client that throws: its failed
\* outcome is pushed and the later groups are not attempted
AfterRefresh_AbortsOnThrow(done, res) ==
    \E refresh \in {RefreshCall(matched[i][g], res)} :
    \E rooms \in {Append(result.rooms, RefreshOutcome(matched[i][g], refresh))} :
        /\ UNCHANGED matched
        /\ IF refresh.threw
           THEN ServerDone(done, res, [result EXCEPT !.rooms = rooms, !.success = AllSucceeded(rooms)])
           ELSE GroupLoop(done, res, matched[i], g + 1, [result EXCEPT !.rooms = rooms])

\* refreshServer from the end of the refresh client of group g to its next await
AfterRefresh(done, res) ==
    \E refresh \in {RefreshCall(matched[i][g], res)} :
        /\ UNCHANGED matched
        /\ IF refresh.threw /\ CatchThrows(refresh.error)
           THEN ServerThrew(done, res, CatchError(refresh.error))
           ELSE \E r \in {[result EXCEPT !.rooms = Append(@, RefreshOutcome(matched[i][g], refresh))]} :
                   GroupLoop(done, res, matched[i], g + 1, r)

\* the fetcher settled the refresh request of group g
RefreshAnswered ==
    /\ pc = "await_refresh"
    /\ \E e \in inflight :
          \/ \E res \in Rejections(RefreshResponses) : AfterRefresh({e}, res)
          \/ \E line \in StatusLines(RefreshResponses) :
                BodyAwaited(e, line, "read_refresh")

\* the body of the refresh Response was read, or its read threw
RefreshDone ==
    /\ pc = "read_refresh"
    /\ \E res \in Bodies(RefreshResponses, pending.line) : AfterRefresh({}, res)

\* the notification loop without its try/catch: a failure rejects run()
AfterNotify_NoCatch(done, res) ==
    \E sent \in {sendNotification(res)} :
        /\ logged' = logged
        /\ IF sent.threw
           THEN /\ j' = j
                /\ Rejected(sent.error)
                /\ Settle(done, <<res>>, <<>>)
           ELSE IF j < Len(results)
           THEN /\ j' = j + 1
                /\ pc' = "await_notify"
                /\ Settle(done, <<res>>,
                          <<Entry(NotifyRequest(config.webhookKey, results[j + 1]), j + 1, 0)>>)
                /\ UNCHANGED <<runError, response, exitCode>>
           ELSE /\ j' = j
                /\ Returned(results)
                /\ Settle(done, <<res>>, <<>>)
        /\ UNCHANGED <<inputVars, config, i, matched, g, result, results, fnVars>>

\* run() from the end of sendNotification for result j to its next await
AfterNotify(done, res) ==
    \E sent \in {sendNotification(res)} :
        /\ logged' = IF sent.threw
                     THEN Append(logged, [idx |-> j, alias |-> results[j].alias, error |-> sent.error])
                     ELSE logged
        /\ IF j < Len(results)
           THEN /\ j' = j + 1
                /\ pc' = "await_notify"
                /\ Settle(done, <<res>>,
                          <<Entry(NotifyRequest(config.webhookKey, results[j + 1]), j + 1, 0)>>)
                /\ UNCHANGED <<runError, response, exitCode>>
           ELSE /\ j' = j
                /\ Returned(results)
                /\ Settle(done, <<res>>, <<>>)
        /\ UNCHANGED <<inputVars, config, i, matched, g, result, results, fnVars>>

\* the fetcher settled the webhook request of result j
NotifyAnswered ==
    /\ pc = "await_notify"
    /\ \E e \in inflight :
          \/ \E res \in Rejections(NotifyResponses) : AfterNotify({e}, res)
          \/ \E line \in StatusLines(NotifyResponses) :
                BodyAwaited(e, line, "read_notify")

\* the body of the webhook Response was read, or its read threw
NotifyDone ==
    /\ pc = "read_notify"
    /\ \E res \in Bodies(NotifyResponses, pending.line) : AfterNotify({}, res)

\* the fetch handler for any pathname but /refresh: run() is not called
NotFound ==
    /\ pc = "start"
    /\ entry = "fetch"
    /\ path # Refresh
    /\ response = NoResponse
    /\ response' = [status |-> 404, ok |-> FALSE, results |-> <<>>, error |-> JNull,
                    text |-> <<"Not Found">>]
    /\ UNCHANGED <<inputVars, pc, config, i, matched, g, result, results, j, runError, inflight,
                   pending, calls, replies, logged, exitCode, fnVars>>

Next ==
    \/ NotFound
    \/ RunStart
    \/ ListAnswered
    \/ ListDone
    \/ RefreshAnswered
    \/ RefreshDone
    \/ NotifyAnswered
    \/ NotifyDone

Spec == Init /\ [][Next]_vars

\* Every call handed to the fetcher completes, with a rejection or with a
\* Response whose body arrives or fails to, and the code between two awaits
\* runs: a step that can be taken is taken.
SpecLive == Init /\ [][Next]_vars /\ WF_vars(Next)

\* ------------------------------------------------- the functions on their own
\* parseLiveNameGroups, filterLiveRooms, refreshRoomCode and
\* refreshMultiRoomCode applied to inputs drawn from bounded sets.

RECURSIVE SeqsUpTo(_, _)
SeqsUpTo(S, n) ==
    IF n = 0 THEN {<<>>}
    ELSE LET shorter == SeqsUpTo(S, n - 1)
         IN  shorter \cup {Append(q, x) : q \in {r \in shorter : Len(r) = n - 1}, x \in S}

EntryPool ==
    {<<>>, <<"A">>, <<"B", "|", "C">>, <<"|">>, <<" ">>, <<"\t", "A", " ", "|", "\n">>,
     <<"A", "|", "|", "\t", "B">>}

RoomAlpha == Room(JNum(1), <<"R", "o", "o", "m", " ", "A", "l", "p", "h", "a">>)
RoomBeta == Room(JNum(2), <<"R", "o", "o", "m", " ", "B", "e", "t", "a">>)
RoomNumbered == JObj("id" :> JNum(7) @@ "name" :> JNum(12))
RoomTrue == JObj("id" :> JNum(8) @@ "name" :> JBool(TRUE))
RoomObject == JObj("id" :> JNum(9) @@ "name" :> JObj("x" :> JNum(1)))

RoomPool ==
    {RoomA, RoomB, RoomBC, RoomANoId, RoomAlpha, RoomBeta, RoomNumbered, RoomTrue, RoomObject,
     RoomOddName, JNull}

LiveNamesPool ==
    {<<<<"A">>>>, <<<<"B", "|", "C">>>>, <<<<"C", "|", "B">>, <<"A">>>>, <<<<"B", "e", "t", "a">>>>,
     <<<<"|">>, <<"1">>>>, <<<<"A", "|", "Z">>, <<"Z">>, <<"o", "m", " ">>>>,
     <<<<"r", "u">>, <<"o", "b", "j", "e", "c", "t">>>>, <<<<"\t", "A", "|", "B", "\n">>>>}

MetaPool ==
    {JNull, JObj("success" :> JBool(TRUE)), JObj("success" :> JBool(FALSE)),
     JObj("success" :> JNum(1) @@ "message" :> JStr(<<"fine">>)),
     JObj("success" :> JBool(FALSE) @@ "message" :> JStr(<<"busy">>)),
     JObj("message" :> JNum(503)),
     JObj("success" :> JBool(TRUE) @@ "message" :> Unprintable)}

DataPool ==
    {JNull, JObj("code" :> JNum(3200)), JObj("code" :> JStr(<<"c", "9">>)), JStr(<<"8", "8">>),
     JObj("code" :> JNull), JNum(0), JObj("code" :> Unprintable), Unprintable}

BodyPool == {JObj("meta" :> meta @@ "data" :> data) : meta \in MetaPool, data \in DataPool}

ResponsePool ==
    {FetchThrew(NetDown), FetchThrew(Nameless),
     HttpError(<<"500">>, <<"Internal Server Error">>, FALSE, <<"boom">>),
     HttpError(<<"502">>, <<"Bad Gateway">>, TRUE, <<>>),
     HttpOkMalformed, HttpOkCutOff, HttpOk(JNull)}
    \cup {HttpOk(body) : body \in BodyPool}

InitFn ==
    /\ env = Empty /\ overrides = Empty /\ procEnv = Empty
    /\ pc = "idle"
    /\ config = NoConfig
    /\ i = 0 /\ g = 0 /\ j = 0
    /\ matched = <<>>
    /\ result = NoResult
    /\ results = <<>>
    /\ runError = NoError
    /\ inflight = {}
    /\ pending = NoPending
    /\ calls = <<>>
    /\ replies = <<>>
    /\ logged = <<>>
    /\ entry = "none"
    /\ path = NoPath
    /\ response = NoResponse
    /\ exitCode = 0
    /\ FnIdle

ApplyParse ==
    /\ fn = "none"
    /\ \E liveNames \in SeqsUpTo(EntryPool, MaxNames) :
          /\ fn' = "parseLiveNameGroups"
          /\ arg' = liveNames
          /\ out' = parseLiveNameGroups(liveNames)
    /\ UNCHANGED runVars

ApplyFilter ==
    /\ fn = "none"
    /\ \E liveList \in SeqsUpTo(RoomPool, MaxRooms), liveNames \in LiveNamesPool :
          /\ fn' = "filterLiveRooms"
          /\ arg' = [liveList |-> liveList, liveNames |-> liveNames]
          /\ out' = filterLiveRooms(liveList, liveNames)
    /\ UNCHANGED runVars

ApplyRefreshOne ==
    /\ fn = "none"
    /\ \E res \in ResponsePool :
          /\ fn' = "refreshRoomCode"
          /\ arg' = res
          /\ out' = refreshRoomCode(res)
    /\ UNCHANGED runVars

ApplyRefreshMany ==
    /\ fn = "none"
    /\ \E res \in ResponsePool :
          /\ fn' = "refreshMultiRoomCode"
          /\ arg' = res
          /\ out' = refreshMultiRoomCode(res)
    /\ UNCHANGED runVars

\* fetchLiveList on every answer of a run and on every answer of ResponsePool,
\* among them the body whose read breaks off
ApplyList ==
    /\ fn = "none"
    /\ \E res \in ListResponses \cup ResponsePool :
          /\ fn' = "fetchLiveList"
          /\ arg' = res
          /\ out' = fetchLiveList(res)
    /\ UNCHANGED runVars

NextFn == ApplyParse \/ ApplyFilter \/ ApplyRefreshOne \/ ApplyRefreshMany \/ ApplyList

SpecFn == InitFn /\ [][NextFn]_vars

\* ===================================================================== claims
\* What the environment variables say, read as the configuration section of
\* the specification reads them.
CfgAliases == parseList(getEnv(env, overrides, procEnv, KeyAlias))
CfgUrls == parseList(getEnv(env, overrides, procEnv, KeyUrl))
CfgNames == parseList(getEnv(env, overrides, procEnv, KeyNames))
CfgToken == Trim(getEnv(env, overrides, procEnv, KeyToken))
CfgWebhook == Trim(getEnv(env, overrides, procEnv, KeyWebhook))

CfgFaults ==
    (IF CfgAliases = <<>> THEN {ErrAliasMissing} ELSE {})
    \cup (IF CfgUrls = <<>> THEN {ErrUrlMissing} ELSE {})
    \cup (IF Len(CfgAliases) # Len(CfgUrls) THEN {ErrCountMismatch} ELSE {})
    \cup (IF CfgNames = <<>> THEN {ErrNamesMissing} ELSE {})
    \cup (IF CfgToken = <<>> THEN {ErrTokenMissing} ELSE {})
    \cup (IF CfgWebhook = <<>> THEN {ErrWebhookMissing} ELSE {})

Started == pc \notin {"start", "idle"}

\* C1: when the configuration has one of the six faults (alias list empty, url
\* list empty, counts differ, name list empty, token empty, webhook key
\* empty), run() is rejected with the error of one of those faults, and no
\* request at all was handed to the fetcher: no list fetch, no refresh, no
\* webhook POST.
C1_ConfigErrorAbortsBeforeNetwork ==
    (Started /\ CfgFaults # {}) =>
        /\ pc = "rejected"
        /\ runError.t = "error" /\ runError.message \in CfgFaults
        /\ calls = <<>>
        /\ inflight = {}
        /\ pending = NoPending
        /\ replies = <<>>

\* a run rejected for the alias/url count mismatch
C1_Witness ==
    /\ pc = "rejected"
    /\ CfgAliases # <<>> /\ CfgUrls # <<>> /\ Len(CfgAliases) # Len(CfgUrls)
    /\ runError = NewError(ErrCountMismatch)
    /\ calls = <<>>

\* The answers the fetcher gave, by the request they answer: requests are
\* answered in the order they were made.
Answered == 1..Len(replies)

IsCall(n, kind, idx) == calls[n].req.kind = kind /\ calls[n].idx = idx

HasListReply(k) == \E n \in Answered : IsCall(n, "list", k)
ListReply(k) == replies[CHOOSE n \in Answered : IsCall(n, "list", k)]

\* a list fetch fails: the fetcher throws, the status is not 2xx, the body is
\* cannot be read as JSON, meta.success is falsy, or data is not an array
ListFetchFails(res) ==
    \/ res.threw
    \/ ~res.ok
    \/ res.jsonFails
    \/ ~Truthy(Get(Get(res.json, "meta"), "success"))
    \/ Get(res.json, "data").t # "arr"

\* the patterns of the configured names, all groups together
AllPatterns(liveNames) ==
    {pattern \in UNION {{Trim(part) : part \in {Split(liveNames[n], "|")[m] :
                                                m \in 1..Len(Split(liveNames[n], "|"))}} :
                        n \in 1..Len(liveNames)} : pattern # <<>>}

\* the list arrived and no room of it carries any configured pattern
NoGroupMatched(res, liveNames) ==
    /\ ~ListFetchFails(res)
    /\ \A r \in 1..Len(Get(res.json, "data").a), pattern \in AllPatterns(liveNames) :
          ~Includes(RoomName(Get(res.json, "data").a[r]).text, pattern)

\* C2: every ServerResult has success = (rooms is non-empty and every outcome
\* in rooms succeeded); and a server for which no name group matched any room
\* has success = FALSE and a non-null error.
C2_SuccessIffAllRoomsSucceeded ==
    \A k \in 1..Len(results) :
        /\ results[k].success
              <=> (Len(results[k].rooms) > 0
                   /\ \A x \in 1..Len(results[k].rooms) : results[k].rooms[x].success)
        /\ (HasListReply(k) /\ NoGroupMatched(ListReply(k), config.liveNames))
              => (~results[k].success /\ results[k].error # JNull)

\* one server with two outcomes, one failed, and one server whose list matched nothing
C2_Witness ==
    /\ Len(results) = 2
    /\ Len(results[1].rooms) = 2
    /\ results[1].rooms[1].success /\ ~results[1].rooms[2].success
    /\ ~results[1].success
    /\ HasListReply(2)
    /\ NoGroupMatched(ListReply(2), config.liveNames)
    /\ results[2].error # JNull

RefreshCalls(k) == {n \in 1..Len(calls) : IsCall(n, "single", k) \/ IsCall(n, "batch", k)}

\* C3: when the list fetch of a server fails, for whatever reason (the fetcher
\* rejects, the status is not 2xx, the body cannot be read as JSON, meta.success is falsy,
\* data is no array), refreshServer returns a result with error set, no rooms
\* and success = FALSE, and neither refresh endpoint is ever called for that
\* server.
C3_ListFailureMeansNoRefresh ==
    \A n \in Answered :
        (calls[n].req.kind = "list" /\ ListFetchFails(replies[n])) =>
            LET k == calls[n].idx
            IN  /\ Len(results) >= k
                /\ results[k].error # JNull
                /\ results[k].rooms = <<>>
                /\ ~results[k].success
                /\ RefreshCalls(k) = {}

\* two servers: the list of the first arrived with meta.success false (its
\* data being an array all the same) and no refresh call was made for it; the
\* second was refreshed
C3_Witness ==
    /\ Len(results) = 2
    /\ HasListReply(1)
    /\ ~ListReply(1).threw /\ ListReply(1).ok /\ ~ListReply(1).jsonFails
    /\ Get(ListReply(1).json, "data").t = "arr"
    /\ ListFetchFails(ListReply(1))
    /\ results[1].error # JNull /\ results[1].rooms = <<>>
    /\ RefreshCalls(1) = {}
    /\ RefreshCalls(2) # {}

\* how many groups of server k the group loop has dealt with: all of them
\* once the server's result is pushed, those up to g while it is refreshed
Processed(k) ==
    IF k <= Len(results) THEN Len(matched[k])
    ELSE IF k = i THEN g
    ELSE 0

CountCalls(k, x, kind) ==
    Cardinality({n \in 1..Len(calls) :
                    calls[n].req.kind = kind /\ calls[n].idx = k /\ calls[n].grp = x})

\* C4 as claimed: the endpoint is selected by the number of rooms of the
\* group: one room, one single-room call and no batch call; two or more
\* rooms, one batch call and no single-room call.
C4_EndpointByRoomCount ==
    \A k \in 1..Len(config.servers) :
        LET done == Processed(k)
            groups == IF done > 0 THEN matched[k] ELSE <<>>
        IN  \A x \in 1..done :
                LET rooms == Len(groups[x].rooms)
                    single == CountCalls(k, x, "single")
                    batch == CountCalls(k, x, "batch")
                IN  /\ rooms = 1 => (single = 1 /\ batch = 0)
                    /\ rooms >= 2 => (batch = 1 /\ single = 0)

\* a room with a usable id: one that is there (truthy) and converts to a string
Usable(room) == Truthy(Get(room, "id")) /\ ~StrThrows(Get(room, "id"))

AllUsable(group) == \A r \in 1..Len(group.rooms) : Usable(group.rooms[r])
NoneUsable(group) == \A r \in 1..Len(group.rooms) : ~Usable(group.rooms[r])

\* C4 amended: for a group all of whose rooms carry a usable id the endpoint
\* is selected by the number of rooms: one room, one single-room call and no
\* batch call; two or more rooms, one batch call and no single-room call.  A
\* group none of whose rooms carries a usable id makes no refresh call at all.
C4_EndpointByRoomCountWithIds ==
    \A k \in 1..Len(config.servers) :
        LET done == Processed(k)
            groups == IF done > 0 THEN matched[k] ELSE <<>>
        IN  \A x \in 1..done :
                LET rooms == Len(groups[x].rooms)
                    single == CountCalls(k, x, "single")
                    batch == CountCalls(k, x, "batch")
                IN  /\ (AllUsable(groups[x]) /\ rooms = 1) => (single = 1 /\ batch = 0)
                    /\ (AllUsable(groups[x]) /\ rooms >= 2) => (batch = 1 /\ single = 0)
                    /\ NoneUsable(groups[x]) => (batch = 0 /\ single = 0)

\* a server with a group of one room refreshed by the single-room endpoint
\* and a group of two rooms refreshed by the batch endpoint, all with ids; and
\* a server with a group of one room without id, not refreshed
C4_Witness ==
    /\ Len(results) = 2
    /\ \E x \in 1..Processed(1) :
          /\ Len(matched[1][x].rooms) = 1 /\ AllUsable(matched[1][x])
          /\ CountCalls(1, x, "single") = 1
    /\ \E x \in 1..Processed(1) :
          /\ Len(matched[1][x].rooms) = 2 /\ AllUsable(matched[1][x])
          /\ CountCalls(1, x, "batch") = 1
    /\ \E x \in 1..Processed(2) :
          /\ Len(matched[2][x].rooms) = 1 /\ NoneUsable(matched[2][x])
          /\ CountCalls(2, x, "single") = 0 /\ CountCalls(2, x, "batch") = 0

\* a notification fails: the fetcher throws, the status is not 2xx, or the
\* body does not carry errcode 0
NotifyFails(res) ==
    \/ res.threw
    \/ ~res.ok
    \/ res.jsonFails
    \/ Get(res.json, "errcode") # JNum(0)

\* C5: a failed notification (non-2xx, errcode other than 0, thrown fetch)
\* never stops the loop and never rejects run(): the next result's
\* notification is attempted, and after the last one run() returns all results.
C5_NotifyFailureDoesNotAbort ==
    \A n \in Answered :
        (calls[n].req.kind = "notify" /\ NotifyFails(replies[n])) =>
            LET k == calls[n].idx
            IN  /\ pc # "rejected"
                /\ runError = NoError
                /\ Len(results) = Len(config.servers)
                /\ k < Len(results) => \E m \in (n + 1)..Len(calls) : IsCall(m, "notify", k + 1)
                /\ k = Len(results) => pc = "returned"

\* run() returned two results although the first notification failed and the
\* second was answered too
C5_Witness ==
    /\ pc = "returned"
    /\ Len(results) = 2
    /\ \E n, m \in Answered :
          /\ IsCall(n, "notify", 1) /\ NotifyFails(replies[n])
          /\ IsCall(m, "notify", 2) /\ ~NotifyFails(replies[m])

NotifyCalls == {n \in 1..Len(calls) : calls[n].req.kind = "notify"}

\* C6: with a valid configuration of N servers (loadConfig returned it),
\* whatever the servers and the webhook answer, run() produces exactly N
\* results, result k carrying the alias of server k, and makes exactly N
\* webhook POSTs, one per result and in the order of the results; no result
\* is posted twice.
C6_OneNotificationPerResult ==
    config # NoConfig =>
        LET N == Len(config.servers)
        IN  /\ \A n \in NotifyCalls :
                  /\ calls[n].idx \in 1..Len(results)
                  /\ calls[n].req = NotifyRequest(config.webhookKey, results[calls[n].idx])
                  /\ \A m \in NotifyCalls : n < m => calls[n].idx < calls[m].idx
            /\ Len(results) <= N
            /\ \A k \in 1..Len(results) : results[k].alias = config.servers[k].alias
            /\ pc \in {"returned", "rejected"} =>
                  /\ Len(results) = N
                  /\ N = Len(CfgAliases)
                  /\ Cardinality(NotifyCalls) = N
                  /\ \A k \in 1..N : \E n \in NotifyCalls : calls[n].idx = k

\* the refresh call of a group throws: the fetcher throws or the status is not 2xx
RefreshThrows(res) == res.threw \/ ~res.ok

\* the text of that exception, as far as it does not depend on the body
ExceptionText(res) ==
    IF res.threw THEN ErrText(res.error) ELSE res.status \o <<" ">> \o res.statusText

\* C7: after a list fetch that succeeded and matched at least one group, the
\* result holds exactly one outcome per matched group, in the order of the
\* groups, hence at most one per configured name entry; a group whose refresh
\* call threw has a failed outcome whose message holds the exception's text,
\* and the groups after it are attempted all the same: the loop is at a later
\* group, or the server's result is there with an outcome for every group.
C7_OneOutcomePerGroup ==
    /\ \A n \in Answered :
          (calls[n].grp > 0 /\ RefreshThrows(replies[n])) =>
              LET k == calls[n].idx
                  x == calls[n].grp
                  rooms == IF k <= Len(results) THEN results[k].rooms ELSE result.rooms
              IN  /\ Len(rooms) >= x
                  /\ ~rooms[x].success
                  /\ Includes(rooms[x].message, ExceptionText(replies[n]))
                  /\ \/ k <= Len(results) /\ Len(rooms) = Len(matched[k])
                     \/ k = i /\ pc \in {"await_refresh", "read_refresh"} /\ g > x
    /\ \A k \in 1..Len(results) :
          LET groups == matched[k]
              rooms == results[k].rooms
          IN  groups # <<>> =>
                  /\ Len(rooms) = Len(groups)
                  /\ Len(rooms) <= Len(config.liveNames)
                  /\ \A x \in 1..Len(groups) : rooms[x].name = Join(groups[x].names, <<"|">>)

\* a server with two groups: the refresh call of the first was rejected by
\* fetch, its outcome is the failed one with the TypeError's message, and the
\* second group was refreshed with success after it
C7_Witness ==
    \E k \in 1..Len(results) :
        /\ Len(matched[k]) = 2 /\ Len(results[k].rooms) = 2
        /\ \E n \in Answered : calls[n].idx = k /\ calls[n].grp = 1 /\ RefreshThrows(replies[n])
        /\ ~results[k].rooms[1].success
        /\ \E n \in Answered : calls[n].idx = k /\ calls[n].grp = 1 /\ replies[n] = FetchThrew(NetDown)
        /\ results[k].rooms[1].message = MsgRefreshException \o NetDown.message
        /\ \E n \in Answered : calls[n].idx = k /\ calls[n].grp = 2 /\ ~RefreshThrows(replies[n])
        /\ results[k].rooms[2].success

\* a 2xx answer whose body is JSON with meta.success truthy
SuccessReply(res) ==
    /\ ~res.threw /\ res.ok /\ ~res.jsonFails
    /\ Truthy(Get(Get(res.json, "meta"), "success"))

\* C8 as claimed: on a 2xx answer with meta.success truthy the single-room
\* client returns the value of data.code as code, the batch client the value
\* of the top-level data field, both with success = TRUE and an empty message.
C8_CodeFieldAsClaimed ==
    /\ (fn = "refreshRoomCode" /\ SuccessReply(arg)) =>
          /\ ~out.threw /\ out.success /\ out.message = <<>>
          /\ out.code = Text(Get(Get(arg.json, "data"), "code"))
    /\ (fn = "refreshMultiRoomCode" /\ SuccessReply(arg)) =>
          /\ ~out.threw /\ out.success /\ out.message = <<>>
          /\ out.code = Text(Get(arg.json, "data"))

\* meta.message, or the literal
Fallback(res) ==
    IF Get(Get(res.json, "meta"), "message") # JNull
    THEN Get(Get(res.json, "meta"), "message")
    ELSE JStr(MsgRefreshFailed)

\* the client returns this value as code, successfully; or, when the value
\* does not convert to a string, throws the TypeError of the conversion
ReturnsCode(value) ==
    IF StrThrows(value) THEN out.threw /\ out.error = PrimitiveError
    ELSE /\ ~out.threw /\ out.success /\ out.message = <<>>
         /\ out.code = Text(value)

\* C8 amended: on a 2xx answer with meta.success truthy the single-room client
\* returns as code the text of data.code when data.code is present (neither
\* null nor missing), the batch client the text of the top-level data field
\* when it is present, never of data.code; when the field is absent the code
\* is meta.message or else the literal; success = TRUE and message is empty
\* in all these cases, but for a value that does not convert to a string
\* (an object with a toString property), for which the client throws.
C8_CodeFieldWhenPresent ==
    /\ (fn = "refreshRoomCode" /\ SuccessReply(arg)) =>
          ReturnsCode(IF Get(Get(arg.json, "data"), "code") # JNull
                      THEN Get(Get(arg.json, "data"), "code")
                      ELSE Fallback(arg))
    /\ (fn = "refreshMultiRoomCode" /\ SuccessReply(arg)) =>
          ReturnsCode(IF Get(arg.json, "data") # JNull
                      THEN Get(arg.json, "data")
                      ELSE Fallback(arg))

\* the batch client answered {meta: {success: true}, data: "88"} returns "88"
C8_Witness ==
    /\ fn = "refreshMultiRoomCode"
    /\ SuccessReply(arg)
    /\ Get(arg.json, "data") = JStr(<<"8", "8">>)
    /\ out.code = <<"8", "8">>
    /\ out.success /\ out.message = <<>>

\* the patterns one raw entry yields: split on "|", trimmed, empties dropped
PatternsOf(raw) == SelectSeq(TrimAll(Split(raw, "|")), NonEmpty)

\* C9: parseLiveNameGroups returns, in input order, the patterns of each raw
\* entry, without the entries that yield no pattern, so that every returned
\* group is a non-empty sequence of non-empty patterns.
C9_NoEmptyGroup ==
    fn = "parseLiveNameGroups" =>
        /\ out = SelectSeq([n \in 1..Len(arg) |-> PatternsOf(arg[n])], NonEmpty)
        /\ \A x \in 1..Len(out) :
              /\ out[x] # <<>>
              /\ \A y \in 1..Len(out[x]) : out[x][y] # <<>>

\* the n-th smallest element of a set of numbers
NthSmallest(S, n) == CHOOSE x \in S : Cardinality({y \in S : y < x}) = n - 1

\* room r of the list carries the pattern in its name
Carries(liveList, r, pattern) ==
    RoomName(liveList[r]).text # <<>> /\ Includes(RoomName(liveList[r]).text, pattern)

\* the first room of the list that carries the pattern
FirstCarrying(liveList, pattern) ==
    liveList[CHOOSE r \in 1..Len(liveList) :
                /\ Carries(liveList, r, pattern)
                /\ \A q \in 1..(r - 1) : ~Carries(liveList, q, pattern)]

\* the patterns of a group that some room carries
Found(liveList, group) ==
    {y \in 1..Len(group) : \E r \in 1..Len(liveList) : Carries(liveList, r, group[y])}

\* C10: filterLiveRooms returns one MatchedGroup for each pattern group of
\* which some pattern is carried by some room, in configured order; its rooms
\* are, for each such pattern in order, the first room of the list whose name
\* contains the pattern; so it has at least one room and at most as many
\* rooms as the group has patterns.
C10_FirstMatchPerPattern ==
    fn = "filterLiveRooms" =>
        LET groups == parseLiveNameGroups(arg.liveNames)
            kept == {x \in 1..Len(groups) : Found(arg.liveList, groups[x]) # {}}
            got == out.groups
        IN  /\ ~out.threw
            /\ Len(got) = Cardinality(kept)
            /\ \A z \in 1..Len(got) :
                  LET group == groups[NthSmallest(kept, z)]
                      found == Found(arg.liveList, group)
                  IN  /\ got[z].names = group
                      /\ Len(got[z].rooms) = Cardinality(found)
                      /\ Len(got[z].rooms) >= 1
                      /\ Len(got[z].rooms) <= Len(group)
                      /\ \A w \in 1..Len(got[z].rooms) :
                            got[z].rooms[w] =
                                FirstCarrying(arg.liveList, group[NthSmallest(found, w)])

\* C11: no list, refresh or notification failure leaves run(): run() is
\* rejected only with the error of a configuration fault; and a request to
\* /refresh is answered 500 with ok = FALSE and that error exactly when the
\* configuration has a fault, and otherwise 200 with ok = TRUE and the results
\* of all the servers, whatever the servers and the webhook answered.
C11_OnlyConfigErrorIsHardFailure ==
    /\ pc = "rejected" => (runError.t = "error" /\ runError.message \in CfgFaults)
    /\ (entry = "fetch" /\ path = Refresh) =>
          /\ pc \in {"returned", "rejected"} => response # NoResponse
          /\ response # NoResponse =>
                IF CfgFaults # {}
                THEN /\ response.status = 500 /\ ~response.ok
                     /\ response.error.t = "str" /\ response.error.s \in CfgFaults
                ELSE /\ response.status = 200 /\ response.ok
                     /\ response.results = results
                     /\ Len(response.results) = Len(config.servers)
                     /\ pc = "returned"

\* a room of the group carries no id
LacksId(group) == \E r \in 1..Len(group.rooms) : ~Truthy(Get(group.rooms[r], "id"))

\* C12: for every matched group in which a matched room lacks an id, no
\* refresh call is made for the group, and the outcome recorded for it is the
\* failed one whose code and message are the missing-id text.
C12_NoCallWhenARoomLacksId ==
    \A k \in 1..Len(results) :
        \A x \in 1..Len(matched[k]) :
            LacksId(matched[k][x]) =>
                /\ CountCalls(k, x, "single") = 0
                /\ CountCalls(k, x, "batch") = 0
                /\ results[k].rooms[x] = MissingIdOutcome(matched[k][x])

\* a 2xx answer
Answered2xx(res) == ~res.threw /\ res.ok

\* the payload as the claim reads it: a malformed body is a null payload
Payload(res) == IF res.jsonFails THEN JNull ELSE res.json

\* C13: for every 2xx answer to refreshRoomCode, success is the truthiness of
\* meta.success; when success is false (a malformed body counting as a null
\* payload) the code is meta.message if present and otherwise the literal,
\* and the message equals the code; when success is true the message is empty.
C13_FailedCodeIsMetaMessage ==
    (fn = "refreshRoomCode" /\ Answered2xx(arg)) =>
        /\ ~out.threw
        /\ out.success = Truthy(Get(Get(Payload(arg), "meta"), "success"))
        /\ ~out.success =>
              /\ out.code = Text(Fallback(arg))
              /\ out.message = out.code
        /\ out.success => out.message = <<>>

\* call b may follow call a at once: within a server the list fetch, then the
\* refresh calls by group; then the next server's list fetch; after the last
\* server the webhook POSTs, by result
FollowsInOrder(a, b) ==
    IF a.req.kind = "notify"
    THEN b.req.kind = "notify" /\ b.idx = a.idx + 1
    ELSE \/ b.req.kind = "list" /\ b.idx = a.idx + 1
         \/ b.req.kind \in {"single", "batch"} /\ b.idx = a.idx /\ b.grp > a.grp
         \/ b.req.kind = "notify" /\ b.idx = 1 /\ a.idx = Len(config.servers)

\* the requests the fetcher has answered with a Response whose body is still
\* being read
Reading == IF pending = NoPending THEN 0 ELSE 1

\* C14: at most one request is outstanding at any time, and a request is made
\* only when every earlier one was answered; the requests go out in the order
\* list fetch of server 1, its refresh calls group by group, list fetch of
\* server 2, ..., and the webhook POSTs come after the last list or refresh
\* call of the last server, when every server has its result.
C14_StrictlySequential ==
    /\ Cardinality(inflight) + Reading <= 1
    /\ Len(calls) = Len(replies) + Cardinality(inflight) + Reading
    /\ calls # <<>> => (calls[1].req.kind = "list" /\ calls[1].idx = 1)
    /\ \A n \in 1..(Len(calls) - 1) : FollowsInOrder(calls[n], calls[n + 1])
    /\ (\E n \in 1..Len(calls) : calls[n].req.kind = "notify") => Len(results) = Len(config.servers)

\* a returned run over two servers, each with refresh calls, the first with two
C14_Witness ==
    /\ pc = "returned"
    /\ Len(config.servers) = 2
    /\ Cardinality({n \in 1..Len(calls) : calls[n].idx = 1 /\ calls[n].grp > 0}) = 2
    /\ \E n \in 1..Len(calls) : calls[n].idx = 2 /\ calls[n].grp > 0
    /\ Cardinality(NotifyCalls) = 2

\* the list and refresh calls made so far
UpstreamCalls == {n \in 1..Len(calls) : calls[n].req.kind # "notify"}

\* a refresh call failed: the fetcher threw, the status is not 2xx, or the
\* payload does not carry a truthy meta.success
RefreshFails(res) ==
    \/ res.threw
    \/ ~res.ok
    \/ ~Truthy(Get(Get(Payload(res), "meta"), "success"))

\* C15: nothing is retried: no two list or refresh calls are for the same
\* server and group, so the list endpoint is called at most once per server
\* and a matched group has at most one refresh call; the list endpoint is
\* called for every server begun, and for every configured server once
\* run() is over; and when a call fails, the failure is in the server's
\* result at once: the error of a failed list fetch, the failed outcome of a
\* failed refresh call.
C15_NothingIsRetried ==
    config # NoConfig =>
        /\ Cardinality({<<calls[n].idx, calls[n].grp>> : n \in UpstreamCalls})
              = Cardinality(UpstreamCalls)
        /\ \A k \in 1..i : \E n \in UpstreamCalls : IsCall(n, "list", k)
        /\ pc \in {"await_notify", "read_notify", "returned"} => i = Len(config.servers)
        /\ pc \in {"returned", "rejected"} =>
              \A k \in 1..Len(config.servers) : \E n \in UpstreamCalls : IsCall(n, "list", k)
        /\ \A n \in UpstreamCalls :
              /\ calls[n].idx \in 1..i
              /\ calls[n].grp > 0 <=> calls[n].req.kind # "list"
              /\ calls[n].grp > 0 => calls[n].grp <= Len(matched[calls[n].idx])
              /\ n <= Len(replies) =>
                    LET k == calls[n].idx
                        x == calls[n].grp
                        r == IF k <= Len(results) THEN results[k] ELSE result
                    IN  IF x = 0
                        THEN ListFetchFails(replies[n]) =>
                                (k <= Len(results) /\ r.error # JNull /\ r.rooms = <<>>)
                        ELSE /\ Len(r.rooms) >= x
                             /\ RefreshFails(replies[n]) => ~r.rooms[x].success

\* the lines of a notification text
Lines(msg) == Split(msg, "\n")

\* C16: every result refreshServer returned has an error exactly when it has
\* no outcome; so no notification of a run carries the fallback line for a
\* result without error and without outcome: a notification is either the
\* failure line followed by the reason line, or a header line (success or
\* partial failure) followed by one line per outcome, at least one.
C16_ErrorIffNoOutcome ==
    /\ \A k \in 1..Len(results) : results[k].error # JNull <=> results[k].rooms = <<>>
    /\ \A n \in NotifyCalls :
          LET r == results[calls[n].idx]
              lines == Lines(calls[n].req.param)
          IN  /\ \A x \in 1..Len(lines) : lines[x] # MsgNoRooms
              /\ IF r.error # JNull
                 THEN /\ Len(lines) = 2
                      /\ Includes(lines[1], MsgFailed)
                      /\ lines[2] = MsgReason \o r.error.s
                 ELSE /\ Len(lines) = 1 + Len(r.rooms)
                      /\ Len(lines) >= 2
                      /\ Includes(lines[1], IF r.success THEN MsgSucceeded ELSE MsgPartial)
                      /\ \A x \in 1..Len(r.rooms) : Includes(lines[x + 1], r.rooms[x].name)

\* a returned run whose first server matched nothing (failure message) and
\* whose second server has two outcomes (header and two lines)
C16_Witness ==
    /\ pc = "returned"
    /\ Len(results) = 2
    /\ results[1].error = JStr(MsgNoMatch) /\ results[1].rooms = <<>>
    /\ results[2].error = JNull /\ Len(results[2].rooms) = 2
    /\ \E n, m \in NotifyCalls :
          /\ calls[n].idx = 1 /\ Len(Lines(calls[n].req.param)) = 2
          /\ calls[m].idx = 2 /\ Len(Lines(calls[m].req.param)) = 3

\* run() is over with a result and a notification attempt for every server
Finished ==
    /\ pc = "returned"
    /\ inflight = {}
    /\ pending = NoPending
    /\ Len(results) = Len(config.servers)
    /\ \A k \in 1..Len(config.servers) :
          \E n \in Answered : IsCall(n, "notify", k)
    /\ entry = "fetch" => response = Succeeded(results)

\* C17: with a valid configuration, if every call handed to the fetcher
\* completes, run() terminates: it returns the results, one per configured
\* server, after a notification attempt for each, whatever the servers and
\* the webhook answered.
C17_RunTerminates ==
    (pc = "start" /\ (entry = "fetch" => path = Refresh) /\ CfgFaults = {}) ~> Finished

====
